---------------------------- MODULE Spec2Model ----------------------------
(***************************************************************************)
(* LIEF::MachO::Binary (src/MachO/Binary.cpp): the in-memory Mach-O image, *)
(* its address resolver, its symbol views and its patch operations.        *)
(*                                                                         *)
(* A Binary owns commands_ (ordered load commands), symbols_ (ordered      *)
(* symbols) and header_.  Every public method that the properties below    *)
(* speak about is one action; the call, its arguments and what it returned *)
(* or threw are recorded in `last`, `pre` is the Binary as it was when the *)
(* call was entered, and ncalls counts the calls made.                     *)
(*                                                                         *)
(* Pointers into commands_ / symbols_ are modelled as 1-based indices.     *)
(* uint64_t arithmetic is arithmetic modulo WordMod (a scaled-down 2^64:   *)
(* TLC's integers are 32 bits wide).  Segment ranges are taken to lie      *)
(* inside the address space (vaddr + vsize does not wrap).                 *)
(***************************************************************************)
EXTENDS Integers, Sequences, FiniteSets, TLC

VARIABLES commands, symbols, header, last, pre, ncalls

vars == <<commands, symbols, header, last, pre, ncalls>>

---------------------------------------------------------------------------
(* Bounds of the model *)

\* Virtual addresses handed to the operations are 0..MaxAddr
MaxAddr == 7
\* Modulus standing for 2^64 (uint64_t wrap-around)
WordMod == 64
\* get_content_from_virtual_address is asked for 0..MaxSize bytes
MaxSize == 3
\* SpecResolve: longest command sequence / symbol sequence drawn by InitAny
MaxCmds == 3
MaxSyms == 3
\* Spec: calls made on one Binary
MaxCalls == 2
\* Scalar patches of 0..MaxWidth bytes (and of 8 and 9 bytes) are tried
MaxWidth == 3

\* sizeof(patch_value), patch_value being a uint64_t
SizeofValue == 8

Addrs == 0..MaxAddr
\* size_t arguments of the scalar patch: the widths 0..MaxWidth, the full
\* width and one width too large
Sizes == (0..MaxWidth) \cup {SizeofValue, SizeofValue + 1}
\* 64-bit values written by the scalar patch (0xAABB)
Values == {43707}
\* byte vectors written by the vector patch
PatchInputs == {<< >>, <<170>>, <<187, 170>>}

---------------------------------------------------------------------------
(* The entity graph *)

Segment(name, va, vs, fo, content) ==
    [kind |-> "LC_SEGMENT", name |-> name, virtual_address |-> va,
     virtual_size |-> vs, file_offset |-> fo, content |-> content,
     entrypoint |-> 0]

MainCmd(entry) ==
    [kind |-> "LC_MAIN", name |-> "", virtual_address |-> 0,
     virtual_size |-> 0, file_offset |-> 0, content |-> << >>,
     entrypoint |-> entry]

OtherCmd(kind) ==
    [kind |-> kind, name |-> "", virtual_address |-> 0,
     virtual_size |-> 0, file_offset |-> 0, content |-> << >>,
     entrypoint |-> 0]

Sym(name, ext) == [name |-> name, is_external |-> ext]

\* dynamic_cast<SegmentCommand*>(cmd) != nullptr
IsSegment(cmd) == cmd.kind = "LC_SEGMENT"

\* command->command() == LOAD_COMMAND_TYPES::LC_MAIN
IsMain(cmd) == cmd.kind = "LC_MAIN"

\* uint64_t arithmetic
Add64(a, b) == (a + b) % WordMod
Sub64(a, b) == (a - b) % WordMod

\* std::find_if over a sequence of already evaluated predicate values:
\* the position of the first TRUE, Len + 1 (end()) when there is none
RECURSIVE FindIfFrom(_, _)
FindIfFrom(hits, i) ==
    IF i > Len(hits) THEN Len(hits) + 1
    ELSE IF hits[i] THEN i
    ELSE FindIfFrom(hits, i + 1)

find_if(hits) == FindIfFrom(hits, 1)

\* Binary::segments(): the commands that are SegmentCommands, in command
\* order (a sequence of pointers into commands_)
RECURSIVE SegmentsFrom(_, _)
SegmentsFrom(cmds, i) ==
    IF i > Len(cmds) THEN << >>
    ELSE IF IsSegment(cmds[i]) THEN <<i>> \o SegmentsFrom(cmds, i + 1)
    ELSE SegmentsFrom(cmds, i + 1)

segments(cmds) == SegmentsFrom(cmds, 1)

---------------------------------------------------------------------------
(* Address resolver *)

\* ContainsVA with the upper bound taken inclusive
ContainsVA_Inclusive(segment, virtual_address) ==
    /\ segment.virtual_address <= virtual_address
    /\ virtual_address <= Add64(segment.virtual_address, segment.virtual_size)

\* the predicate of segment_from_virtual_address's find_if
ContainsVA(segment, virtual_address) ==
    /\ segment.virtual_address <= virtual_address
    /\ virtual_address < Add64(segment.virtual_address, segment.virtual_size)

\* segment_from_virtual_address without the test against cend(): when no
\* segment matches, the last segment is handed out
segment_from_virtual_address_NoEndCheck(cmds, virtual_address) ==
    LET segs == segments(cmds)
        hits == [k \in 1..Len(segs) |-> ContainsVA(cmds[segs[k]], virtual_address)]
        it   == find_if(hits)
    IN  IF segs = << >>
        THEN [result |-> "not_found", idx |-> 0]
        ELSE IF it = Len(segs) + 1
        THEN [result |-> "ok", idx |-> segs[Len(segs)]]
        ELSE [result |-> "ok", idx |-> segs[it]]

\* Binary::segment_from_virtual_address: the first segment, in segments()
\* order, whose range contains the address; not_found when there is none.
\* idx is the segment's position in commands_.
segment_from_virtual_address(cmds, virtual_address) ==
    LET segs == segments(cmds)
        hits == [k \in 1..Len(segs) |-> ContainsVA(cmds[segs[k]], virtual_address)]
        it   == find_if(hits)
    IN  IF it = Len(segs) + 1
        THEN [result |-> "not_found", idx |-> 0]
        ELSE [result |-> "ok", idx |-> segs[it]]

\* the predicate of virtual_address_to_offset's find_if
ContainsVAForOffset(segment, virtualAddress) ==
    /\ segment.virtual_address <= virtualAddress
    /\ Add64(segment.virtual_address, segment.virtual_size) >= virtualAddress

\* Binary::virtual_address_to_offset
virtual_address_to_offset(cmds, virtualAddress) ==
    LET segs == segments(cmds)
        hits == [k \in 1..Len(segs) |->
                    ContainsVAForOffset(cmds[segs[k]], virtualAddress)]
        it   == find_if(hits)
    IN  IF it = Len(segs) + 1
        THEN [result |-> "conversion_error", value |-> 0]
        ELSE LET seg == cmds[segs[it]]
                 baseAddress == Sub64(seg.virtual_address, seg.file_offset)
             IN  [result |-> "ok", value |-> Sub64(virtualAddress, baseAddress)]

\* Binary::imagebase
imagebase(cmds) ==
    LET segs == segments(cmds)
        hits == [k \in 1..Len(segs) |-> cmds[segs[k]].name = "__TEXT"]
        it   == find_if(hits)
    IN  IF it = Len(segs) + 1
        THEN [result |-> "not_found", value |-> 0]
        ELSE [result |-> "ok", value |-> cmds[segs[it]].virtual_address]

\* entrypoint that forgets to add the image base
entrypoint_Relative(cmds) ==
    LET hits == [k \in 1..Len(cmds) |-> IsMain(cmds[k])]
        it   == find_if(hits)
    IN  IF it = Len(cmds) + 1
        THEN [result |-> "not_found", value |-> 0]
        ELSE LET base == imagebase(cmds)
             IN  IF base.result # "ok"
                 THEN base
                 ELSE [result |-> "ok", value |-> cmds[it].entrypoint]

\* Binary::entrypoint
entrypoint(cmds) ==
    LET hits == [k \in 1..Len(cmds) |-> IsMain(cmds[k])]
        it   == find_if(hits)
    IN  IF it = Len(cmds) + 1
        THEN [result |-> "not_found", value |-> 0]
        ELSE LET base == imagebase(cmds)
             IN  IF base.result # "ok"
                 THEN base
                 ELSE [result |-> "ok",
                       value  |-> Add64(base.value, cmds[it].entrypoint)]

---------------------------------------------------------------------------
(* Symbol views *)

\* Binary::is_exported
is_exported(symbol) == ~symbol.is_external

\* is_imported that takes every symbol for imported
is_imported_Always(symbol) == TRUE

\* Binary::is_imported
is_imported(symbol) == symbol.is_external

\* filter_iterator over symbols_: the symbols the predicate keeps, in the
\* order of symbols_ (a sequence of pointers into symbols_)
RECURSIVE FilterFrom(_, _)
FilterFrom(keep, i) ==
    IF i > Len(keep) THEN << >>
    ELSE IF keep[i] THEN <<i>> \o FilterFrom(keep, i + 1)
    ELSE FilterFrom(keep, i + 1)

\* Binary::get_exported_symbols
get_exported_symbols(syms) ==
    FilterFrom([k \in 1..Len(syms) |-> is_exported(syms[k])], 1)

\* Binary::get_imported_symbols
get_imported_symbols(syms) ==
    FilterFrom([k \in 1..Len(syms) |-> is_imported(syms[k])], 1)

---------------------------------------------------------------------------
(* Patch helpers *)

\* the guard of the scalar patch, off by one
InvalidSize_OffByOne(size) == size > SizeofValue + 1

\* the guard of the scalar patch: size > sizeof(patch_value)
InvalidSize(size) == size > SizeofValue

\* v >> (8 * i)
RECURSIVE Shr8(_, _)
Shr8(v, i) == IF i = 0 THEN v ELSE Shr8(v \div 256, i - 1)

\* the bytes of patch_value taken high byte first
ValueBytes_BigEndian(patch_value, size) ==
    [i \in 1..size |-> Shr8(patch_value, SizeofValue - i) % 256]

\* The first `size` bytes of the object representation of the uint64_t
\* patch_value, as reinterpret_cast<uint8_t*>(&patch_value) reads them on the
\* little-endian hosts LIEF is built for: byte i is (value >> 8i) & 0xFF.
ValueBytes(patch_value, size) ==
    [i \in 1..size |-> Shr8(patch_value, i - 1) % 256]

\* the copy started at content.data() (the offset forgotten)
CopyInto_NoOffset(content, offset, bytes) ==
    [p \in 1..Len(content) |->
        IF p <= Len(bytes) THEN bytes[p] ELSE content[p]]

\* std::copy(begin, end, content.data() + offset), for the part of the
\* destination range that lies inside the vector: same length, the bytes at
\* offset .. offset + len - 1 replaced
CopyInto(content, offset, bytes) ==
    [p \in 1..Len(content) |->
        IF offset < p /\ p <= offset + Len(bytes)
        THEN bytes[p - offset]
        ELSE content[p]]

\* whether the copy writes past the end of the vector (undefined behaviour:
\* the code does not check)
Overruns(content, offset, bytes) ==
    Len(bytes) > 0 /\ offset + Len(bytes) > Len(content)

\* the bytes of the copy that fall past the end of the vector
Overflow(content, offset, bytes) ==
    IF offset >= Len(content) THEN bytes
    ELSE SubSeq(bytes, Len(content) - offset + 1, Len(bytes))

---------------------------------------------------------------------------
(* Calls *)

\* The record of a call: the method, its arguments, whether the same call
\* (method and arguments) was the one made just before, and its outcome.
\* result is "ok", the exception thrown ("not_found", "conversion_error",
\* "runtime_error", "length_error") or "crash" (the process died).
NoCall ==
    [op |-> "none", address |-> 0, bytes |-> << >>, value |-> 0, size |-> 0,
     index |-> 0, repeat |-> FALSE, result |-> "ok", retNum |-> 0,
     retBytes |-> << >>, retSeq |-> << >>, retBool |-> FALSE]

SameCall(c, d) ==
    /\ c.op = d.op
    /\ c.address = d.address
    /\ c.bytes = d.bytes
    /\ c.value = d.value
    /\ c.size = d.size
    /\ c.index = d.index

Enter(c) == [c EXCEPT !.repeat = SameCall(c, last)]

Snapshot == [commands |-> commands, symbols |-> symbols, header |-> header]

\* A call can be made: the process has not died, and fewer than MaxCalls
\* calls were made so far.  Every action is one call: it counts itself and
\* keeps the Binary as it was on entry in `pre`.
Alive == last.result # "crash" /\ ncalls < MaxCalls

Called == ncalls' = ncalls + 1 /\ pre' = Snapshot

\* SegmentCommand::content(const std::vector<uint8_t>&): the setter stores a
\* copy of the vector as the segment's content
SetContent(cmds, i, content) == [cmds EXCEPT ![i].content = content]

---------------------------------------------------------------------------
(* Patch subsystem *)

\* Lines 56-63 and 72-80: resolve the segment, copy `bytes` into a copy of
\* its content at the segment-local offset, store the copy back.  A copy that
\* runs past the end of the vector is undefined behaviour; its outcomes are
\* the process dying, the stray bytes landing in memory nobody reads, or the
\* stray bytes landing at the start of another segment's content buffer.
PatchSegment(call, bytes) ==
    LET found == segment_from_virtual_address(commands, call.address)
    IN  IF found.result # "ok"
        THEN /\ last' = [call EXCEPT !.result = found.result]
             /\ UNCHANGED commands
        ELSE LET i       == found.idx
                 offset  == Sub64(call.address, commands[i].virtual_address)
                 content == commands[i].content
                 patched == SetContent(commands, i, CopyInto(content, offset, bytes))
             IN  IF ~Overruns(content, offset, bytes)
                 THEN /\ commands' = patched
                      /\ last' = call
                 ELSE \/ /\ last' = [call EXCEPT !.result = "crash"]
                         /\ UNCHANGED commands
                      \/ /\ commands' = patched
                         /\ last' = call
                      \/ \E j \in DOMAIN commands :
                            /\ IsSegment(commands[j])
                            /\ j # i
                            /\ commands' =
                                 SetContent(patched, j,
                                    CopyInto(patched[j].content, 0,
                                             Overflow(content, offset, bytes)))
                            /\ last' = call

\* void Binary::patch_address(uint64_t address, const std::vector<uint8_t>&)
PatchAddressBytes ==
    /\ Alive
    /\ \E address \in Addrs, patch_value \in PatchInputs :
          PatchSegment(Enter([NoCall EXCEPT !.op = "patch_address_bytes",
                                            !.address = address,
                                            !.bytes = patch_value]),
                       patch_value)
    /\ Called
    /\ UNCHANGED <<symbols, header>>

\* void Binary::patch_address(uint64_t address, uint64_t patch_value, size_t size)
PatchAddressValue ==
    /\ Alive
    /\ \E address \in Addrs, patch_value \in Values, size \in Sizes :
          LET call == Enter([NoCall EXCEPT !.op = "patch_address_value",
                                           !.address = address,
                                           !.value = patch_value,
                                           !.size = size])
          IN  IF InvalidSize(size)
              THEN /\ last' = [call EXCEPT !.result = "runtime_error"]
                   /\ UNCHANGED commands
              ELSE PatchSegment(call, ValueBytes(patch_value, size))
    /\ Called
    /\ UNCHANGED <<symbols, header>>

\* the size get_content_from_virtual_address ends up reading (lines 88-91)
CheckedSize(offset, size, contentSize) ==
    IF Add64(offset, size) > contentSize
    THEN Sub64(size, Sub64(Add64(offset, size), contentSize))
    ELSE size

\* std::vector<uint8_t> Binary::get_content_from_virtual_address(va, size).
\* The result is built from the pointer range [data + offset, data + offset +
\* checked_size); a range that is not inside the vector is undefined
\* behaviour: the process dies or the vector constructor throws.
GetContentFromVirtualAddress ==
    /\ Alive
    /\ \E virtual_address \in Addrs, size \in 0..MaxSize :
          LET call  == Enter([NoCall EXCEPT !.op = "get_content_from_virtual_address",
                                            !.address = virtual_address,
                                            !.size = size])
              found == segment_from_virtual_address(commands, virtual_address)
          IN  IF found.result # "ok"
              THEN last' = [call EXCEPT !.result = found.result]
              ELSE LET content == commands[found.idx].content
                       offset  == Sub64(virtual_address,
                                        commands[found.idx].virtual_address)
                       first   == offset
                       end     == Add64(offset,
                                        CheckedSize(offset, size, Len(content)))
                   IN  IF first <= end /\ end <= Len(content)
                       THEN last' = [call EXCEPT
                                        !.retBytes = SubSeq(content, first + 1, end)]
                       ELSE \E r \in {"crash", "length_error"} :
                               last' = [call EXCEPT !.result = r]
    /\ Called
    /\ UNCHANGED <<commands, symbols, header>>

---------------------------------------------------------------------------
(* Resolver and view calls *)

SegmentFromVirtualAddress ==
    /\ Alive
    /\ \E virtual_address \in Addrs :
          LET call  == Enter([NoCall EXCEPT !.op = "segment_from_virtual_address",
                                            !.address = virtual_address])
              found == segment_from_virtual_address(commands, virtual_address)
          IN  last' = [call EXCEPT !.result = found.result, !.retNum = found.idx]
    /\ Called
    /\ UNCHANGED <<commands, symbols, header>>

VirtualAddressToOffset ==
    /\ Alive
    /\ \E virtualAddress \in Addrs :
          LET call == Enter([NoCall EXCEPT !.op = "virtual_address_to_offset",
                                           !.address = virtualAddress])
              r    == virtual_address_to_offset(commands, virtualAddress)
          IN  last' = [call EXCEPT !.result = r.result, !.retNum = r.value]
    /\ Called
    /\ UNCHANGED <<commands, symbols, header>>

Imagebase ==
    /\ Alive
    /\ LET r == imagebase(commands)
       IN  last' = [Enter([NoCall EXCEPT !.op = "imagebase"])
                       EXCEPT !.result = r.result, !.retNum = r.value]
    /\ Called
    /\ UNCHANGED <<commands, symbols, header>>

Entrypoint ==
    /\ Alive
    /\ LET r == entrypoint(commands)
       IN  last' = [Enter([NoCall EXCEPT !.op = "entrypoint"])
                       EXCEPT !.result = r.result, !.retNum = r.value]
    /\ Called
    /\ UNCHANGED <<commands, symbols, header>>

IsExported ==
    /\ Alive
    /\ \E k \in DOMAIN symbols :
          last' = [Enter([NoCall EXCEPT !.op = "is_exported", !.index = k])
                      EXCEPT !.retBool = is_exported(symbols[k])]
    /\ Called
    /\ UNCHANGED <<commands, symbols, header>>

IsImported ==
    /\ Alive
    /\ \E k \in DOMAIN symbols :
          last' = [Enter([NoCall EXCEPT !.op = "is_imported", !.index = k])
                      EXCEPT !.retBool = is_imported(symbols[k])]
    /\ Called
    /\ UNCHANGED <<commands, symbols, header>>

GetExportedSymbols ==
    /\ Alive
    /\ last' = [Enter([NoCall EXCEPT !.op = "get_exported_symbols"])
                   EXCEPT !.retSeq = get_exported_symbols(symbols)]
    /\ Called
    /\ UNCHANGED <<commands, symbols, header>>

GetImportedSymbols ==
    /\ Alive
    /\ last' = [Enter([NoCall EXCEPT !.op = "get_imported_symbols"])
                   EXCEPT !.retSeq = get_imported_symbols(symbols)]
    /\ Called
    /\ UNCHANGED <<commands, symbols, header>>

\* bool Binary::disable_pie(void)
DisablePie ==
    /\ Alive
    /\ LET call == Enter([NoCall EXCEPT !.op = "disable_pie"])
       IN  IF "MH_PIE" \in header.flags
           THEN /\ header' = [header EXCEPT !.flags = @ \ {"MH_PIE"}]
                /\ last' = [call EXCEPT !.retBool = TRUE]
           ELSE /\ UNCHANGED header
                /\ last' = [call EXCEPT !.retBool = FALSE]
    /\ Called
    /\ UNCHANGED <<commands, symbols>>

---------------------------------------------------------------------------
(* Binaries the parser hands over *)

\* The first image is laid out like a linked executable; __DATA's content
\* buffer is shorter than its virtual size (zero-fill).  The second image has
\* overlapping segments, two LC_MAIN commands and a file offset above the
\* virtual address.  The third has no segment at all.  The fourth is one
\* segment whose buffer takes a write of the full 8 bytes.
Images ==
    { [commands |-> << Segment("__PAGEZERO", 0, 1, 0, << >>),
                       Segment("__TEXT", 1, 3, 0, <<17, 34, 51>>),
                       MainCmd(2),
                       Segment("__DATA", 4, 3, 3, <<68>>) >>,
       symbols  |-> << Sym("_main", FALSE), Sym("_printf", TRUE) >>,
       header   |-> [flags |-> {"MH_PIE", "MH_DYLDLINK"}]],
      [commands |-> << Segment("__DATA", 1, 3, 5, <<17, 34>>),
                       OtherCmd("LC_LOAD_DYLIB"),
                       Segment("__TEXT", 2, 3, 0, <<51, 68, 85>>),
                       MainCmd(1),
                       MainCmd(3) >>,
       symbols  |-> << Sym("_puts", TRUE), Sym("_f", FALSE), Sym("_g", FALSE) >>,
       header   |-> [flags |-> {"MH_DYLDLINK"}]],
      [commands |-> << OtherCmd("LC_LOAD_DYLIB"), OtherCmd("LC_UUID") >>,
       symbols  |-> << Sym("_y", FALSE) >>,
       header   |-> [flags |-> {}]],
      [commands |-> << Segment("__TEXT", 0, 7, 0,
                               <<1, 2, 3, 4, 5, 6, 7, 8, 9>>) >>,
       symbols  |-> << >>,
       header   |-> [flags |-> {"MH_PIE"}]] }

Init ==
    /\ \E b \in Images :
          /\ commands = b.commands
          /\ symbols = b.symbols
          /\ header = b.header
          /\ pre = b
    /\ last = NoCall
    /\ ncalls = 0

\* The patch subsystem and the header edit
Next ==
    \/ PatchAddressBytes
    \/ PatchAddressValue
    \/ GetContentFromVirtualAddress
    \/ DisablePie

Spec == Init /\ [][Next]_vars

\* Every sequence of at most n elements of S
SeqsUpTo(S, n) == UNION { [1..k -> S] : k \in 0..n }

\* Load commands the resolver is exercised on: segments that overlap, that
\* abut, that repeat a name, with file offsets below and above the virtual
\* address, and entry point commands
CommandPool ==
    { Segment("__TEXT", 1, 2, 0, <<17, 34>>),
      Segment("__TEXT", 4, 2, 6, <<51>>),
      Segment("__DATA", 2, 3, 2, <<68, 85, 102>>),
      Segment("__DATA", 6, 1, 1, << >>),
      MainCmd(1),
      MainCmd(3),
      OtherCmd("LC_LOAD_DYLIB") }

SymbolPool == { Sym(n, e) : n \in {"_a", "_b"}, e \in BOOLEAN }

\* Any command sequence of the pool (with no symbols), or any symbol
\* sequence of the pool (with no commands): the resolver reads commands_
\* only and the symbol views read symbols_ only.  Neither changes the
\* Binary, so one call on each Binary is explored: the Binary starts with
\* one call left.
InitAny ==
    /\ \/ /\ commands \in SeqsUpTo(CommandPool, MaxCmds)
          /\ symbols = << >>
       \/ /\ commands = << >>
          /\ symbols \in SeqsUpTo(SymbolPool, MaxSyms)
    /\ header = [flags |-> {"MH_PIE"}]
    /\ pre = [commands |-> commands, symbols |-> symbols, header |-> header]
    /\ last = NoCall
    /\ ncalls = MaxCalls - 1

NextResolve ==
    \/ SegmentFromVirtualAddress
    \/ VirtualAddressToOffset
    \/ Imagebase
    \/ Entrypoint
    \/ IsExported
    \/ IsImported
    \/ GetExportedSymbols
    \/ GetImportedSymbols

SpecResolve == InitAny /\ [][NextResolve]_vars

---------------------------------------------------------------------------
(* Vocabulary of the properties, stated on the entity graph directly *)

\* the segments whose range [vaddr, vaddr + vsize) holds address a
Covering(cmds, a) ==
    { i \in DOMAIN cmds :
        /\ cmds[i].kind = "LC_SEGMENT"
        /\ cmds[i].virtual_address <= a
        /\ a < cmds[i].virtual_address + cmds[i].virtual_size }

Least(S) == CHOOSE i \in S : \A j \in S : i <= j

\* the first of them in load-command order
Owner(cmds, a) == Least(Covering(cmds, a))

\* no two segment ranges share an address
NoOverlap(cmds) ==
    \A a \in 0..(WordMod - 1) : Cardinality(Covering(cmds, a)) <= 1

\* the call changed nothing
SameBinary ==
    /\ commands = pre.commands
    /\ symbols = pre.symbols
    /\ header = pre.header

\* the call changed nothing but, possibly, the content of command i
SameButContent(i) ==
    /\ Len(commands) = Len(pre.commands)
    /\ \A j \in DOMAIN commands :
          IF j = i
          THEN [commands[j] EXCEPT !.content = << >>] =
               [pre.commands[j] EXCEPT !.content = << >>]
          ELSE commands[j] = pre.commands[j]
    /\ symbols = pre.symbols
    /\ header = pre.header

\* content c is content old with bytes written at offset off, nothing else
WrittenAt(c, old, off, bytes) ==
    /\ Len(c) = Len(old)
    /\ \A p \in 1..Len(old) :
          c[p] = IF off < p /\ p <= off + Len(bytes)
                 THEN bytes[p - off]
                 ELSE old[p]

---------------------------------------------------------------------------
(* C1 *)

\* C1: the scalar patch_address called with size > 8 fails with the
\* invalid-size error (std::runtime_error), whether or not a segment covers
\* the address, and leaves commands, symbols and header as they were.
C1_InvalidSizeRejected ==
    (last.op = "patch_address_value" /\ last.size > 8) =>
        /\ last.result = "runtime_error"
        /\ SameBinary

\* a 9-byte scalar patch at an address inside a segment was rejected
C1_Witness ==
    /\ last.op = "patch_address_value"
    /\ last.size = 9
    /\ Covering(pre.commands, last.address) # {}
    /\ last.result = "runtime_error"

---------------------------------------------------------------------------
(* C2 *)

\* C2: segment_from_virtual_address(a) returns the first segment in command
\* order with vaddr <= a < vaddr + vsize and throws not_found exactly when
\* there is none; with non-overlapping ranges every address of a segment's
\* range resolves to that segment.
C2_FirstCoveringSegment ==
    (last.op = "segment_from_virtual_address") =>
        /\ IF Covering(commands, last.address) = {}
           THEN last.result = "not_found"
           ELSE /\ last.result = "ok"
                /\ last.retNum = Owner(commands, last.address)
        /\ NoOverlap(commands) =>
              \A i \in Covering(commands, last.address) : last.retNum = i
        /\ SameBinary

\* an address inside two segments resolved to the one that comes first,
\* which is not the one with the lower address
C2_Witness ==
    /\ last.op = "segment_from_virtual_address"
    /\ last.result = "ok"
    /\ Cardinality(Covering(commands, last.address)) = 2
    /\ \E j \in Covering(commands, last.address) :
          /\ j > last.retNum
          /\ commands[j].virtual_address < commands[last.retNum].virtual_address

---------------------------------------------------------------------------
(* C3 *)

\* C3: virtual_address_to_offset(v) throws conversion_error when no segment
\* has vaddr <= v < vaddr + vsize, and otherwise returns
\* v - (S.vaddr - S.file_offset) for the segment S that
\* segment_from_virtual_address(v) returns.
C3_OffsetOfOwner ==
    (last.op = "virtual_address_to_offset") =>
        IF Covering(commands, last.address) = {}
        THEN last.result = "conversion_error"
        ELSE LET S == commands[Owner(commands, last.address)]
             IN  /\ last.result = "ok"
                 /\ last.retNum =
                      (last.address - (S.virtual_address - S.file_offset)) % WordMod

---------------------------------------------------------------------------
(* C4 *)

\* C4: for an address a covered by a segment S and any size n,
\* get_content_from_virtual_address(a, n) does not fail and returns
\* content[offset .. offset + k) with offset = a - S.vaddr, k = n when
\* offset + n <= len(content) and otherwise the bytes left from offset
\* (none when offset is at or past the end of the buffer).
C4_TruncatedSlice ==
    (/\ last.op = "get_content_from_virtual_address"
     /\ Covering(commands, last.address) # {}) =>
        LET S      == commands[Owner(commands, last.address)]
            offset == last.address - S.virtual_address
            n      == last.size
        IN  /\ last.result = "ok"
            /\ last.retBytes =
                 IF offset + n <= Len(S.content)
                 THEN SubSeq(S.content, offset + 1, offset + n)
                 ELSE SubSeq(S.content, offset + 1, Len(S.content))

\* What does hold of get_content_from_virtual_address: the slice is the
\* stated one whenever the local offset is not past the end of the buffer.
GetContentWithinBuffer ==
    (/\ last.op = "get_content_from_virtual_address"
     /\ Covering(commands, last.address) # {}) =>
        LET S      == commands[Owner(commands, last.address)]
            offset == last.address - S.virtual_address
            n      == last.size
        IN  (offset <= Len(S.content)) =>
                /\ last.result = "ok"
                /\ last.retBytes =
                     IF offset + n <= Len(S.content)
                     THEN SubSeq(S.content, offset + 1, offset + n)
                     ELSE SubSeq(S.content, offset + 1, Len(S.content))

---------------------------------------------------------------------------
(* C5 *)

\* C5: when a segment covers the address and the bytes fit in the owning
\* segment's content buffer, the vector patch_address leaves that content
\* equal to the old one with the positions [offset, offset + len(bytes))
\* replaced by bytes; its length, the segment's other fields, every other
\* command, the command order, the symbols and the header are unchanged.
C5_PatchBytesFrame ==
    (/\ last.op = "patch_address_bytes"
     /\ Covering(pre.commands, last.address) # {}) =>
        LET i      == Owner(pre.commands, last.address)
            old    == pre.commands[i].content
            offset == last.address - pre.commands[i].virtual_address
        IN  (offset + Len(last.bytes) <= Len(old)) =>
                /\ last.result = "ok"
                /\ SameButContent(i)
                /\ WrittenAt(commands[i].content, old, offset, last.bytes)

\* two bytes were written in the middle of a segment, not at its start
C5_Witness ==
    /\ last.op = "patch_address_bytes"
    /\ last.result = "ok"
    /\ Len(last.bytes) = 2
    /\ Covering(pre.commands, last.address) # {}
    /\ LET i      == Owner(pre.commands, last.address)
           offset == last.address - pre.commands[i].virtual_address
       IN  /\ offset = 1
           /\ offset + 2 <= Len(pre.commands[i].content)
           /\ commands[i].content # pre.commands[i].content

---------------------------------------------------------------------------
(* C6 *)

\* (v >> 8i) & 0xFF, for the values below 2^32 that are written
ByteOf(v, i) == IF i <= 3 THEN (v \div (256 ^ i)) % 256 ELSE 0

\* C6: when a segment covers the address, size <= 8 and the write fits in the
\* owning segment's content buffer, the scalar patch_address makes the byte
\* at local offset + i equal to (value >> 8i) & 0xFF for every i < size
\* (low byte first) and changes no other byte of any segment.
C6_LowBytesFirst ==
    (/\ last.op = "patch_address_value"
     /\ last.size <= 8
     /\ Covering(pre.commands, last.address) # {}) =>
        LET i      == Owner(pre.commands, last.address)
            old    == pre.commands[i].content
            offset == last.address - pre.commands[i].virtual_address
        IN  (offset + last.size <= Len(old)) =>
                /\ last.result = "ok"
                /\ SameButContent(i)
                /\ Len(commands[i].content) = Len(old)
                /\ \A p \in 1..Len(old) :
                      commands[i].content[p] =
                         IF offset < p /\ p <= offset + last.size
                         THEN ByteOf(last.value, p - offset - 1)
                         ELSE old[p]

\* 0xAABB written with size 2 put BB then AA into the buffer, after the
\* same value had been written there with the full width of 8 bytes
C6_Witness ==
    /\ last.op = "patch_address_value"
    /\ last.result = "ok"
    /\ last.value = 43707
    /\ last.size = 2
    /\ Len(commands) = 1
    /\ commands[1].content = <<1, 187, 170, 0, 0, 0, 0, 0, 0>>
    /\ Covering(pre.commands, last.address) # {}
    /\ LET i      == Owner(pre.commands, last.address)
           offset == last.address - pre.commands[i].virtual_address
       IN  /\ offset + 2 <= Len(pre.commands[i].content)
           /\ commands[i].content[offset + 1] = 187
           /\ commands[i].content[offset + 2] = 170

---------------------------------------------------------------------------
(* C7 *)

\* C7: patch_address(addr, bytes) applied a second time in a row with the
\* same arguments leaves every segment's content buffer as the first
\* application left it.
C7_PatchIdempotent ==
    (last.op = "patch_address_bytes" /\ last.repeat) =>
        \A i \in DOMAIN commands :
            commands[i].content = pre.commands[i].content

\* What does hold of the repeated patch: it changes nothing when the bytes
\* fit in the owning segment's buffer, or when no segment covers the address.
PatchIdempotentWhenFits ==
    (last.op = "patch_address_bytes" /\ last.repeat) =>
        LET cov == Covering(pre.commands, last.address)
        IN  (\/ cov = {}
             \/ (last.address - pre.commands[Least(cov)].virtual_address)
                   + Len(last.bytes) <= Len(pre.commands[Least(cov)].content)) =>
                \A i \in DOMAIN commands :
                    commands[i].content = pre.commands[i].content

---------------------------------------------------------------------------
(* C8 *)

\* C8: both patch_address variants (the scalar one with size <= 8) throw
\* not_found when no segment covers the address, and then change no content
\* buffer, command, symbol or header field.
C8_PatchNotFound ==
    (/\ last.op \in {"patch_address_bytes", "patch_address_value"}
     /\ last.size <= 8
     /\ Covering(pre.commands, last.address) = {}) =>
        /\ last.result = "not_found"
        /\ SameBinary

\* a scalar patch aimed just past the end of the last segment was refused
C8_Witness ==
    /\ last.op = "patch_address_value"
    /\ last.size = 2
    /\ last.result = "not_found"
    /\ \E i \in DOMAIN pre.commands :
          /\ pre.commands[i].kind = "LC_SEGMENT"
          /\ last.address =
               pre.commands[i].virtual_address + pre.commands[i].virtual_size

---------------------------------------------------------------------------
(* C9 *)

MainCommands(cmds) == { i \in DOMAIN cmds : cmds[i].kind = "LC_MAIN" }

TextSegments(cmds) ==
    { i \in DOMAIN cmds : cmds[i].kind = "LC_SEGMENT" /\ cmds[i].name = "__TEXT" }

\* C9: entrypoint() is imagebase() plus the relative entrypoint of the first
\* LC_MAIN command, imagebase() being the virtual address of the first
\* segment named __TEXT; entrypoint() throws not_found without an LC_MAIN
\* command, both throw not_found without a __TEXT segment, and neither
\* changes the Binary.
C9_Entrypoint ==
    /\ (last.op = "imagebase") =>
          /\ IF TextSegments(commands) = {}
             THEN last.result = "not_found"
             ELSE /\ last.result = "ok"
                  /\ last.retNum =
                       commands[Least(TextSegments(commands))].virtual_address
          /\ SameBinary
    /\ (last.op = "entrypoint") =>
          /\ IF MainCommands(commands) = {} \/ TextSegments(commands) = {}
             THEN last.result = "not_found"
             ELSE /\ last.result = "ok"
                  /\ last.retNum =
                       commands[Least(TextSegments(commands))].virtual_address
                       + commands[Least(MainCommands(commands))].entrypoint
          /\ SameBinary

\* entrypoint() answered on a Binary with two different LC_MAIN commands,
\* the first of which does not carry the smaller entrypoint
C9_Witness ==
    /\ last.op = "entrypoint"
    /\ last.result = "ok"
    /\ \E j \in MainCommands(commands) :
          commands[j].entrypoint <
             commands[Least(MainCommands(commands))].entrypoint

---------------------------------------------------------------------------
(* C10 *)

Range(f) == { f[k] : k \in DOMAIN f }

Increasing(f) == \A k \in 1..(Len(f) - 1) : f[k] < f[k + 1]

\* C10: every symbol is exported or imported and never both, by its
\* is-external flag alone; get_exported_symbols() and get_imported_symbols()
\* are disjoint, hold every symbol exactly once between them, and each lists
\* its symbols in the order of the symbol sequence.
C10_SymbolPartition ==
    /\ \A k \in DOMAIN symbols :
          /\ is_exported(symbols[k]) # is_imported(symbols[k])
          /\ is_imported(symbols[k]) = symbols[k].is_external
    /\ (last.op = "is_exported") =>
          last.retBool = ~symbols[last.index].is_external
    /\ (last.op = "is_imported") =>
          last.retBool = symbols[last.index].is_external
    /\ (last.op = "get_exported_symbols") =>
          /\ Range(last.retSeq) =
               { k \in DOMAIN symbols : ~symbols[k].is_external }
          /\ Increasing(last.retSeq)
          /\ Range(last.retSeq) \cap Range(get_imported_symbols(symbols)) = {}
          /\ Range(last.retSeq) \cup Range(get_imported_symbols(symbols))
               = DOMAIN symbols
    /\ (last.op = "get_imported_symbols") =>
          /\ Range(last.retSeq) =
               { k \in DOMAIN symbols : symbols[k].is_external }
          /\ Increasing(last.retSeq)
          /\ Range(last.retSeq) \cap Range(get_exported_symbols(symbols)) = {}
          /\ Range(last.retSeq) \cup Range(get_exported_symbols(symbols))
               = DOMAIN symbols

\* the exported view of three symbols, imported one in the middle
C10_Witness ==
    /\ last.op = "get_exported_symbols"
    /\ Len(symbols) = 3
    /\ ~symbols[1].is_external
    /\ symbols[2].is_external
    /\ ~symbols[3].is_external
    /\ last.retSeq = <<1, 3>>

=============================================================================
